---- MODULE Spec2Model ----
(***************************************************************************)
(* Model of mistral_ocr.py: the batch driver (__main__, process_file), the *)
(* per-document pipeline (process_pdf_with_ocr / process_image_with_ocr)   *)
(* and the page materializer (process_ocr_response).                       *)
(*                                                                         *)
(* Python strings are sequences of tokens.  A token is one character       *)
(* ("!", "[", "a", "\n", ...) or a run of characters that the code only    *)
(* ever copies as a whole ("_images", ".md", "data:image/png;base64").     *)
(* Python dicts are functions whose DOMAIN is the set of keys.             *)
(***************************************************************************)
EXTENDS Integers, Sequences, FiniteSets, TLC

(***************************************************************************)
(* Bounds of the explored inputs.                                          *)
(***************************************************************************)
\* files found in the directory
MaxFiles == 2
\* pages of one response
MaxPages == 2
\* image records of one response, over all its pages
MaxImages == 2

(***************************************************************************)
(* Python values.                                                          *)
(***************************************************************************)
\* dict.get(key) yields None for a missing key; the code only ever tests such
\* a value for truth, where None and the empty str / list are alike
None == <<>>
EmptyDict == <<>>

\* dict.get(key) / dict.get(key, default)
Get(d, k, default) == IF k \in DOMAIN d THEN d[k] ELSE default

\* truth value of a str / list / None, as tested by `not x` and `if x:`
Truthy(v) == Len(v) > 0

\* str(n) for the small page and image numbers
Str(n) == <<CASE n = 0 -> "0" [] n = 1 -> "1" [] n = 2 -> "2" [] n = 3 -> "3"
              [] n = 4 -> "4" [] n = 5 -> "5" [] n = 6 -> "6" [] n = 7 -> "7"
              [] n = 8 -> "8" [] OTHER -> "9">>

StartsWith(s, p) == Len(s) >= Len(p) /\ SubSeq(s, 1, Len(p)) = p

\* first index >= i at which s holds token c, 0 when there is none
RECURSIVE Find(_, _, _)
Find(s, c, i) ==
    IF i > Len(s) THEN 0
    ELSE IF s[i] = c THEN i
    ELSE Find(s, c, i + 1)

\* str.replace(old, new): leftmost, non-overlapping occurrences, old # ""
ReplaceFirstOnly(s, old, new) ==
    LET hits == {i \in 1..Len(s) : StartsWith(SubSeq(s, i, Len(s)), old)}
    IN  IF hits = {} THEN s
        ELSE LET i == CHOOSE j \in hits : \A h \in hits : j <= h
             IN  SubSeq(s, 1, i - 1) \o new \o SubSeq(s, i + Len(old), Len(s))

RECURSIVE Replace(_, _, _)
Replace(s, old, new) ==
    IF Len(s) < Len(old) THEN s
    ELSE IF SubSeq(s, 1, Len(old)) = old
         THEN new \o Replace(SubSeq(s, Len(old) + 1, Len(s)), old, new)
         ELSE <<Head(s)>> \o Replace(Tail(s), old, new)

\* str.strip(): the whitespace tokens of the model
Whitespace == {" ", "\n"}

RECURSIVE LStrip(_)
LStrip(s) == IF s # <<>> /\ Head(s) \in Whitespace THEN LStrip(Tail(s)) ELSE s

RECURSIVE RStrip(_)
RStrip(s) ==
    IF s # <<>> /\ s[Len(s)] \in Whitespace
    THEN RStrip(SubSeq(s, 1, Len(s) - 1)) ELSE s

Strip(s) == RStrip(LStrip(s))

\* sep.join(parts)
RECURSIVE JoinSingle(_, _)
JoinSingle(sep, parts) ==
    IF parts = <<>> THEN <<>>
    ELSE IF Len(parts) = 1 THEN parts[1]
    ELSE parts[1] \o <<Head(sep)>> \o JoinSingle(sep, Tail(parts))

RECURSIVE Join(_, _)
Join(sep, parts) ==
    IF parts = <<>> THEN <<>>
    ELSE IF Len(parts) = 1 THEN parts[1]
    ELSE parts[1] \o sep \o Join(sep, Tail(parts))

(***************************************************************************)
(* base64.b64decode(s) with validate=False: characters outside the         *)
(* alphabet are discarded, then the rest is decoded; an incomplete final   *)
(* group raises binascii.Error.  Payloads are built from the groups        *)
(* "QUJD" (b"ABC"), "QQ==" (b"A") and "QQ" (incomplete).                   *)
(***************************************************************************)
B64Junk == {",", "!"}

RECURSIVE B64Decode(_)
B64Decode(s) ==
    IF s = <<>> THEN [ok |-> TRUE, bytes |-> <<>>]
    ELSE LET rest == B64Decode(Tail(s))
         IN  IF Head(s) \in B64Junk THEN rest
             ELSE IF Head(s) = "QUJD"
                  THEN [ok |-> rest.ok, bytes |-> <<"A", "B", "C">> \o rest.bytes]
             ELSE IF Head(s) = "QQ=="
                  THEN [ok |-> rest.ok, bytes |-> <<"A">> \o rest.bytes]
             ELSE [ok |-> FALSE, bytes |-> <<>>]

DataUriPrefix == "data:image/png;base64"

\* lines 67-72: the base64 text after an optional data-URI prefix;
\* split(',', 1)[1] raises IndexError when the prefixed text has no comma
B64Data(image_base64) ==
    IF Head(image_base64) = DataUriPrefix
    THEN LET c == Find(image_base64, ",", 1)
         IN  IF c = 0 THEN [ok |-> FALSE, data |-> <<>>]
             ELSE [ok |-> TRUE, data |-> SubSeq(image_base64, c + 1, Len(image_base64))]
    ELSE [ok |-> TRUE, data |-> image_base64]

(***************************************************************************)
(* json.loads(str(ocr_response)) on the textual representations the model  *)
(* draws: a JSON object, a JSON array, and two texts that are not JSON.    *)
(***************************************************************************)
TextEmptyObject == <<"{", "}">>
TextPagesObject == <<"{", "\"pages\"", ":", "[", "]", "}">>
TextArray == <<"[", "]">>
TextNone == <<"N", "o", "n", "e">>
TextRepr == <<"<", "o", "b", "j", ">">>

JsonLoads(text) ==
    IF text = TextEmptyObject
    THEN [ok |-> TRUE, value |-> [py |-> "dict", d |-> EmptyDict]]
    ELSE IF text = TextPagesObject
    THEN [ok |-> TRUE, value |-> [py |-> "dict", d |-> [pages |-> <<>>]]]
    ELSE IF text = TextArray
    THEN [ok |-> TRUE, value |-> [py |-> "list", d |-> EmptyDict]]
    ELSE [ok |-> FALSE, value |-> [py |-> "dict", d |-> EmptyDict]]

(***************************************************************************)
(* File names and output paths.                                            *)
(***************************************************************************)
ImageExtensions == {".jpg", ".jpeg", ".png", ".gif", ".bmp", ".tiff", ".tif", ".webp"}

\* str.lower() on an extension token
Lower(e) ==
    CASE e = ".PNG" -> ".png"
      [] e = ".JPG" -> ".jpg"
      [] e = ".PDF" -> ".pdf"
      [] OTHER -> e

\* os.path.splitext(name): a file name is <<root tokens..., extension token>>
SplitExt(name) == [root |-> SubSeq(name, 1, Len(name) - 1), ext |-> name[Len(name)]]

OutputPath(base_name) == base_name \o <<".md">>
JsonOutputPath(base_name) == base_name \o <<"_full.json">>
ImageDir(base_name) == base_name \o <<"_images">>

ImageFilename(base_name, page_idx, img_idx, image_format) ==
    base_name \o <<"_page">> \o Str(page_idx + 1) \o <<"_img">> \o Str(img_idx + 1)
              \o <<".">> \o image_format

\* os.path.join(image_dir, image_filename)
ImagePath(base_name, page_idx, img_idx, image_format) ==
    ImageDir(base_name) \o <<"/">> \o ImageFilename(base_name, page_idx, img_idx, image_format)

\* f"./{os.path.basename(image_dir)}/{image_filename}"
ImageRef(base_name, page_idx, img_idx, image_format) ==
    <<".", "/">> \o ImageDir(base_name) \o <<"/">>
                 \o ImageFilename(base_name, page_idx, img_idx, image_format)

\* f"![{img_id}]({img_id})" and f"![Image {img_id}]({img_path})"
Placeholder(img_id) == <<"!", "[">> \o img_id \o <<"]", "(">> \o img_id \o <<")">>
Rewritten(img_id, img_path) ==
    <<"!", "[", "Image ">> \o img_id \o <<"]", "(">> \o img_path \o <<")">>

(***************************************************************************)
(* The OCR backend's answers.  A response value exposes a set of           *)
(* conversion capabilities (hasattr), each with its own output, and has a  *)
(* textual representation (str).                                           *)
(***************************************************************************)
Capabilities == {"model_dump", "dict", "to_dict", "__dict__"}

IdA == <<"a">>
IdB == <<"b">>

RecOkA == [id |-> IdA, image_base64 |-> <<"QUJD">>]
RecBadA == [id |-> IdA, image_base64 |-> <<"QUJD", "QQ">>]
RecOkB == [id |-> IdB, image_base64 |-> <<DataUriPrefix, ",", "QQ==">>, format |-> <<"jpeg">>]
RecNoCommaB == [id |-> IdB, image_base64 |-> <<DataUriPrefix>>]
RecNoB64B == [id |-> IdB]
RecInline == [data |-> <<DataUriPrefix, ",", "QUJD">>, description |-> <<"d">>]

ImageRecords == {RecOkA, RecBadA, RecOkB, RecNoCommaB, RecNoB64B, RecInline}

MdA == <<"\n">> \o Placeholder(IdA) \o <<"x">> \o Placeholder(IdA) \o <<" ">>
MdB == <<"x">> \o Placeholder(IdB) \o <<"!", "[", "a", "]", "(", "b", ")">> \o Placeholder(IdA)

\* the ids of one page's records are pairwise distinct
UniqueIds(imgs) ==
    \A i, j \in DOMAIN imgs :
        (i # j /\ "id" \in DOMAIN imgs[i] /\ "id" \in DOMAIN imgs[j])
            => imgs[i]["id"] # imgs[j]["id"]

ImageLists(n) == {imgs \in [1..n -> ImageRecords] : UniqueIds(imgs)}

\* the pages that carry exactly n image records
PagesWith(n) ==
    IF n = 0
    THEN {EmptyDict, [markdown |-> MdB, images |-> <<>>]}
    ELSE {[images |-> imgs] : imgs \in {l \in ImageLists(n) : l[1] = RecOkA}}
         \cup {[markdown |-> MdB, images |-> imgs] : imgs \in ImageLists(n)}
         \cup {[markdown |-> MdA, images |-> imgs] :
                   imgs \in {l \in {<<RecOkA>>, <<RecOkB>>, <<RecBadA>>,
                                    <<RecOkA, RecNoCommaB>>, <<RecBadA, RecOkB>>} : Len(l) = n}}

\* the page sequences of length n that carry at most budget images in all
RECURSIVE PageSeqs(_, _)
PageSeqs(n, budget) ==
    IF n = 0 THEN {<<>>}
    ELSE UNION {UNION {{<<p>> \o rest : rest \in PageSeqs(n - 1, budget - k)}
                       : p \in PagesWith(k)}
                : k \in 0..budget}

RichDocs == {[pages |-> ps] : ps \in UNION {PageSeqs(n, MaxImages) : n \in 0..MaxPages}}

DocSmall == [pages |-> <<[markdown |-> MdB, images |-> <<RecBadA, RecOkB>>],
                         [markdown |-> MdA]>>]
DocNoPages == [pages |-> <<>>]

\* a response whose capabilities caps each return their own copy of doc
Response(caps, doc, text) ==
    [caps |-> caps,
     out |-> [c \in caps |-> [py |-> "dict", d |-> ("src" :> c) @@ doc]],
     text |-> text]

Texts == {TextEmptyObject, TextPagesObject, TextArray, TextNone, TextRepr}

Responses(b) ==
    IF b = "batch"
    THEN {Response({"model_dump", "dict"}, DocSmall, TextRepr),
          Response({}, DocNoPages, TextNone),
          Response({}, DocNoPages, TextArray)}
    ELSE IF b = "caps"
    THEN {Response(caps, doc, text) :
             caps \in SUBSET Capabilities, doc \in {DocSmall, DocNoPages}, text \in Texts}
    ELSE {Response({"model_dump"}, doc, TextRepr) : doc \in RichDocs}

\* lines 279-291: the lists find_files_to_process can return hold distinct
\* names, grouped by glob pattern: "*.pdf" first, then per extension the
\* lower-case and the upper-case pattern, in the order of image_extensions
FileNames == {<<"a", ".pdf">>, <<"b", ".pdf">>, <<"b", ".jpg">>, <<"a", ".PNG">>}

GlobRank(name) ==
    LET e == name[Len(name)]
    IN  CASE e = ".pdf" -> 0
          [] e = ".jpg" -> 1
          [] e = ".JPG" -> 2
          [] e = ".png" -> 5
          [] e = ".PNG" -> 6
          [] OTHER -> 9

FileLists ==
    {fl \in UNION {[1..n -> FileNames] : n \in 0..MaxFiles} :
        /\ \A i, j \in DOMAIN fl : i # j => fl[i] # fl[j]
        /\ \A i, j \in DOMAIN fl : i < j => GlobRank(fl[i]) <= GlobRank(fl[j])}

(***************************************************************************)
(* Lines 147-166 / 236-249: the conversion of the response to a mapping.   *)
(* The result names the strategy that produced the value.                  *)
(***************************************************************************)
NormalizeDictFirst(r) ==
    IF "dict" \in r.caps THEN [applied |-> "dict", value |-> r.out["dict"]]
    ELSE IF "model_dump" \in r.caps
    THEN [applied |-> "model_dump", value |-> r.out["model_dump"]]
    ELSE IF "to_dict" \in r.caps THEN [applied |-> "to_dict", value |-> r.out["to_dict"]]
    ELSE IF "__dict__" \in r.caps THEN [applied |-> "__dict__", value |-> r.out["__dict__"]]
    ELSE IF JsonLoads(r.text).ok
    THEN [applied |-> "json", value |-> JsonLoads(r.text).value]
    ELSE [applied |-> "raw_text", value |-> [py |-> "dict", d |-> [raw_text |-> r.text]]]

Normalize(r) ==
    IF "model_dump" \in r.caps
    THEN [applied |-> "model_dump", value |-> r.out["model_dump"]]
    ELSE IF "dict" \in r.caps THEN [applied |-> "dict", value |-> r.out["dict"]]
    ELSE IF "to_dict" \in r.caps THEN [applied |-> "to_dict", value |-> r.out["to_dict"]]
    ELSE IF "__dict__" \in r.caps THEN [applied |-> "__dict__", value |-> r.out["__dict__"]]
    ELSE IF JsonLoads(r.text).ok
    THEN [applied |-> "json", value |-> JsonLoads(r.text).value]
    ELSE [applied |-> "raw_text", value |-> [py |-> "dict", d |-> [raw_text |-> r.text]]]

(***************************************************************************)
(* process_ocr_response, lines 12-97.                                      *)
(***************************************************************************)
\* response_dict.get('pages', []); .get raises AttributeError on a value
\* that is not a mapping
PagesStrict(response_dict) ==
    IF response_dict.py # "dict" \/ "pages" \notin DOMAIN response_dict.d
    THEN [ok |-> FALSE, pages |-> <<>>]
    ELSE [ok |-> TRUE, pages |-> response_dict.d["pages"]]

Pages(response_dict) ==
    IF response_dict.py # "dict" THEN [ok |-> FALSE, pages |-> <<>>]
    ELSE [ok |-> TRUE, pages |-> Get(response_dict.d, "pages", <<>>)]

\* lines 28-31
HasImages(pages) ==
    \E i \in DOMAIN pages :
        Truthy(Get(pages[i], "images", None)) /\ Len(Get(pages[i], "images", <<>>)) > 0

\* image_data_dict[image_id] = path; a dict keeps insertion order
DictSetFresh(dict, k, v) == <<<<k, v>>>>

DictSet(dict, k, v) ==
    IF \E i \in DOMAIN dict : dict[i][1] = k
    THEN [i \in DOMAIN dict |-> IF dict[i][1] = k THEN <<k, v>> ELSE dict[i]]
    ELSE Append(dict, <<k, v>>)

DictKeys(dict) == {dict[i][1] : i \in DOMAIN dict}

\* a file or directory of the filesystem, tagged with the run that wrote it
Dir(by) == [kind |-> "dir", by |-> by, text |-> <<>>, obj |-> EmptyDict]
TextFile(by, text) == [kind |-> "text", by |-> by, text |-> text, obj |-> EmptyDict]
BinFile(by, bytes) == [kind |-> "bin", by |-> by, text |-> bytes, obj |-> EmptyDict]
JsonFile(by, obj) == [kind |-> "json", by |-> by, text |-> <<"{">>, obj |-> obj]

\* lines 51-84: the body of the image loop for one record.  io is what the
\* filesystem does to this record's file: "ok", "open" (open raises) or
\* "write" (write raises after the file was opened).
ImageBody(image, base_name, page_idx, img_idx, dict, fsys, io, by) ==
    LET image_id == Get(image, "id", None)
        image_base64 == Get(image, "image_base64", None)
        image_format == Get(image, "format", <<"png">>)
        image_path == ImagePath(base_name, page_idx, img_idx, image_format)
        b64 == B64Data(image_base64)
        dec == B64Decode(b64.data)
        opened == (image_path :> BinFile(by, <<>>)) @@ fsys
    IN  IF ~Truthy(image_id) \/ ~Truthy(image_base64)
        THEN [dict |-> dict, fs |-> fsys, diag |-> <<"skip", Str(img_idx)>>, wrote |-> {}]
        ELSE IF ~b64.ok
        THEN [dict |-> dict, fs |-> fsys,
              diag |-> <<"error", <<"list index out of range">>>>, wrote |-> {}]
        ELSE IF io = "open"
        THEN [dict |-> dict, fs |-> fsys,
              diag |-> <<"error", <<"cannot open">>>>, wrote |-> {}]
        ELSE IF ~dec.ok
        THEN [dict |-> dict, fs |-> opened,
              diag |-> <<"error", <<"Incorrect padding">>>>, wrote |-> {image_path}]
        ELSE IF io = "write"
        THEN [dict |-> dict, fs |-> opened,
              diag |-> <<"error", <<"cannot write">>>>, wrote |-> {image_path}]
        ELSE [dict |-> DictSet(dict, image_id,
                               ImageRef(base_name, page_idx, img_idx, image_format)),
              fs |-> (image_path :> BinFile(by, dec.bytes)) @@ fsys,
              diag |-> <<"saved", image_path>>, wrote |-> {image_path}]

\* lines 87-89: one replace per entry of image_data_dict, in dict order
RECURSIVE RewriteAll(_, _)
RewriteAll(page_markdown, dict) ==
    IF dict = <<>> THEN page_markdown
    ELSE RewriteAll(Replace(page_markdown, Placeholder(dict[1][1]),
                            Rewritten(dict[1][1], dict[1][2])),
                    Tail(dict))

(***************************************************************************)
(* State.                                                                  *)
(***************************************************************************)
VARIABLES
    backend,          \* which set of answers the OCR backend draws from
    faults,           \* the operations the environment may fail in this run
    files,            \* find_files_to_process()
    pc,               \* position of the single thread of control
    file_idx,         \* number of files the for loop has taken
    successful,
    failed,
    stdout,           \* the "Processing ..." lines printed so far
    func,             \* the function process_file dispatched to
    base_name,
    ocr_response,
    response_dict,
    applied,          \* the conversion that produced response_dict
    page_idx,         \* number of pages the page loop has taken
    img_idx,          \* number of records the image loop has taken
    page_markdown,
    page_images,
    image_data_dict,
    diag,             \* the per-record lines printed for the current page
    all_content,
    content,
    fs,               \* the filesystem: path -> directory or file
    written,          \* the paths the current call has created or written
    result,           \* the value the current call returned
    error             \* str(e) of the exception the current call caught

vars == <<backend, faults, files, pc, file_idx, successful, failed, stdout, func, base_name,
          ocr_response, response_dict, applied, page_idx, img_idx, page_markdown,
          page_images, image_data_dict, diag, all_content, content, fs, written,
          result, error>>

mainVars == <<backend, faults, files, file_idx, successful, failed, stdout>>
docVars == <<func, base_name, ocr_response, response_dict, applied>>
pageVars == <<page_idx, img_idx, page_markdown, page_images, image_data_dict, diag,
              all_content, content>>

NoResponse == Response({}, EmptyDict, <<>>)
NoDict == [py |-> "none", d |-> EmptyDict]

InitLocals ==
    /\ func = "none"
    /\ base_name = <<>>
    /\ ocr_response = NoResponse
    /\ response_dict = NoDict
    /\ applied = "none"
    /\ page_idx = 0
    /\ img_idx = 0
    /\ page_markdown = <<>>
    /\ page_images = <<>>
    /\ image_data_dict = <<>>
    /\ diag = <<>>
    /\ all_content = <<>>
    /\ content = <<>>
    /\ written = {}
    /\ result = FALSE
    /\ error = <<>>

FaultKinds == {"network", "image", "markdown", "json"}

\* what an operation of kind k may do in this run
Outcomes(k) == IF k \in faults THEN {"ok", "open", "write"} ELSE {"ok"}

InitMain(b, f, lists) ==
    /\ backend = b
    /\ faults = f
    /\ files \in lists
    /\ pc = "main"
    /\ file_idx = 0
    /\ successful = 0
    /\ failed = 0
    /\ stdout = <<>>
    /\ fs = <<>>
    /\ InitLocals

\* a batch of files, a few backend answers
Init == InitMain("batch", FaultKinds, FileLists)

\* one file, every combination of capabilities and textual representations
InitCaps == InitMain("caps", FaultKinds, {fl \in FileLists : Len(fl) = 1})

\* one file, every page structure within the bounds, image files may fail
InitPages == InitMain("pages", {"network", "image"}, {<<<<"a", ".pdf">>>>})

(***************************************************************************)
(* __main__, lines 314-337, and process_file, lines 293-312.               *)
(***************************************************************************)
\* lines 316-326
Main ==
    /\ pc = "main"
    /\ pc' = IF files = <<>> THEN "exit" ELSE "loop"
    /\ successful' = 0
    /\ failed' = 0
    /\ UNCHANGED <<backend, faults, files, file_idx, stdout, docVars, pageVars, fs, written,
                   result, error>>

\* lines 304-312: the function a file is dispatched to
Dispatch(file_path) ==
    LET file_extension == Lower(SplitExt(file_path).ext)
    IN  IF file_extension = ".pdf" THEN "pdf"
        ELSE IF file_extension \in ImageExtensions THEN "image"
        ELSE "unsupported"

\* line 328-329 taking the next file, process_file, and the head of
\* process_pdf_with_ocr / process_image_with_ocr (lines 109-114, 198-203)
ProcessFile ==
    /\ pc = "loop"
    /\ file_idx < Len(files)
    /\ LET file_path == files[file_idx + 1]
           f == Dispatch(file_path)
       IN  /\ file_idx' = file_idx + 1
           /\ func' = f
           /\ IF f = "unsupported"
              THEN /\ pc' = "ret"
                   /\ UNCHANGED <<base_name, stdout>>
              ELSE /\ pc' = "upload"
                   /\ base_name' = SplitExt(file_path).root
                   /\ stdout' = Append(stdout, file_path)
    /\ ocr_response' = NoResponse
    /\ response_dict' = NoDict
    /\ applied' = "none"
    /\ page_idx' = 0
    /\ img_idx' = 0
    /\ page_markdown' = <<>>
    /\ page_images' = <<>>
    /\ image_data_dict' = <<>>
    /\ diag' = <<>>
    /\ all_content' = <<>>
    /\ content' = <<>>
    /\ written' = {}
    /\ result' = FALSE
    /\ error' = <<>>
    /\ UNCHANGED <<backend, faults, files, successful, failed, fs>>

\* lines 329-332
TallyLosingFailures(s, f, ok) ==
    IF ok THEN [successful |-> s + 1, failed |-> f] ELSE [successful |-> s, failed |-> f]

Tally(s, f, ok) ==
    IF ok THEN [successful |-> s + 1, failed |-> f] ELSE [successful |-> s, failed |-> f + 1]

Count ==
    /\ pc = "ret"
    /\ successful' = Tally(successful, failed, result).successful
    /\ failed' = Tally(successful, failed, result).failed
    /\ pc' = "loop"
    /\ UNCHANGED <<backend, faults, files, file_idx, stdout, docVars, pageVars, fs, written,
                   result, error>>

\* lines 334-337
Summary ==
    /\ pc = "loop"
    /\ file_idx = Len(files)
    /\ pc' = "done"
    /\ UNCHANGED <<mainVars, docVars, pageVars, fs, written, result, error>>

(***************************************************************************)
(* process_pdf_with_ocr, lines 116-186, and process_image_with_ocr, lines  *)
(* 205-269.  The two differ only in the document type sent to the backend. *)
(***************************************************************************)
\* except Exception as e: print; return False
Raise(e) ==
    /\ error' = e
    /\ result' = FALSE
    /\ pc' = "ret"

\* lines 118-129: client.files.upload may raise
Upload ==
    /\ pc = "upload"
    /\ \E io \in Outcomes("network") :
          IF io = "ok" THEN pc' = "signed_url" /\ UNCHANGED <<error, result>>
          ELSE Raise(<<"upload failed">>)
    /\ UNCHANGED <<mainVars, docVars, pageVars, fs, written>>

\* lines 131-134
GetSignedUrl ==
    /\ pc = "signed_url"
    /\ \E io \in Outcomes("network") :
          IF io = "ok" THEN pc' = "ocr" /\ UNCHANGED <<error, result>>
          ELSE Raise(<<"signed url failed">>)
    /\ UNCHANGED <<mainVars, docVars, pageVars, fs, written>>

\* lines 136-145: the backend answers with some response value, or raises
OcrProcess ==
    /\ pc = "ocr"
    /\ \/ \E r \in Responses(backend) :
             /\ ocr_response' = r
             /\ pc' = "normalize"
             /\ UNCHANGED <<error, result>>
       \/ /\ "network" \in faults
          /\ Raise(<<"ocr failed">>)
          /\ UNCHANGED ocr_response
    /\ UNCHANGED <<mainVars, func, base_name, response_dict, applied, pageVars, fs,
                   written>>

\* lines 147-166
NormalizeResponse ==
    /\ pc = "normalize"
    /\ response_dict' = Normalize(ocr_response).value
    /\ applied' = Normalize(ocr_response).applied
    /\ pc' = "mkdir"
    /\ UNCHANGED <<mainVars, func, base_name, ocr_response, pageVars, fs, written,
                   result, error>>

\* lines 23-38: the image directory is created when some page has images
MakeImageDir ==
    /\ pc = "mkdir"
    /\ LET p == Pages(response_dict)
           image_dir == ImageDir(base_name)
       IN  IF ~p.ok
           THEN /\ Raise(<<"AttributeError">>)
                /\ UNCHANGED <<fs, written>>
           ELSE /\ pc' = "page"
                /\ UNCHANGED <<error, result>>
                /\ IF HasImages(p.pages)
                   THEN /\ fs' = IF image_dir \in DOMAIN fs THEN fs
                                 ELSE (image_dir :> Dir(file_idx)) @@ fs
                        /\ written' = written \cup {image_dir}
                   ELSE UNCHANGED <<fs, written>>
    /\ UNCHANGED <<mainVars, docVars, pageVars>>

\* lines 40-49: the page loop takes the next page
PageStart ==
    /\ pc = "page"
    /\ page_idx < Len(Pages(response_dict).pages)
    /\ LET page == Pages(response_dict).pages[page_idx + 1]
       IN  /\ page_markdown' = Get(page, "markdown", <<>>)
           /\ page_images' = Get(page, "images", <<>>)
           /\ pc' = IF Truthy(Get(page, "images", <<>>)) THEN "image" ELSE "append"
    /\ img_idx' = 0
    /\ image_data_dict' = <<>>
    /\ diag' = <<>>
    /\ UNCHANGED <<mainVars, docVars, page_idx, all_content, content, fs, written,
                   result, error>>

\* lines 51-84: the image loop takes the next record
ImageStep ==
    /\ pc = "image"
    /\ img_idx < Len(page_images)
    /\ \E io \in Outcomes("image") :
          LET r == ImageBody(page_images[img_idx + 1], base_name, page_idx, img_idx,
                             image_data_dict, fs, io, file_idx)
          IN  /\ image_data_dict' = r.dict
              /\ fs' = r.fs
              /\ diag' = Append(diag, r.diag)
              /\ written' = written \cup r.wrote
    /\ img_idx' = img_idx + 1
    /\ pc' = IF img_idx + 1 = Len(page_images) THEN "rewrite" ELSE "image"
    /\ UNCHANGED <<mainVars, docVars, page_idx, page_markdown, page_images,
                   all_content, content, result, error>>

\* lines 86-89
RewritePage ==
    /\ pc = "rewrite"
    /\ page_markdown' = RewriteAll(page_markdown, image_data_dict)
    /\ pc' = "append"
    /\ UNCHANGED <<mainVars, docVars, page_idx, img_idx, page_images, image_data_dict,
                   diag, all_content, content, fs, written, result, error>>

\* lines 91-92
AppendPage ==
    /\ pc = "append"
    /\ all_content' = Append(all_content, page_markdown)
    /\ page_idx' = page_idx + 1
    /\ pc' = "page"
    /\ UNCHANGED <<mainVars, docVars, img_idx, page_markdown, page_images,
                   image_data_dict, diag, content, fs, written, result, error>>

\* lines 94-97 and 169: the pages are joined and returned
JoinContent ==
    /\ pc = "page"
    /\ page_idx = Len(Pages(response_dict).pages)
    /\ content' = Join(<<"\n", "\n">>, all_content)
    /\ pc' = "write_md"
    /\ UNCHANGED <<mainVars, docVars, page_idx, img_idx, page_markdown, page_images,
                   image_data_dict, diag, all_content, fs, written, result, error>>

\* lines 171-174: open(output_path, "w") truncates, then the text is written
WriteMarkdown ==
    /\ pc = "write_md"
    /\ \E io \in Outcomes("markdown") :
          LET output_path == OutputPath(base_name)
          IN  IF io = "ok"
              THEN /\ fs' = (output_path :> TextFile(file_idx, Strip(content))) @@ fs
                   /\ written' = written \cup {output_path}
                   /\ pc' = "write_json"
                   /\ UNCHANGED <<error, result>>
              ELSE IF io = "write"
              THEN /\ fs' = (output_path :> TextFile(file_idx, <<>>)) @@ fs
                   /\ written' = written \cup {output_path}
                   /\ Raise(<<"cannot write">>)
              ELSE /\ Raise(<<"cannot open">>)
                   /\ UNCHANGED <<fs, written>>
    /\ UNCHANGED <<mainVars, docVars, pageVars>>

\* lines 176-182
WriteJson ==
    /\ pc = "write_json"
    /\ \E io \in Outcomes("json") :
          LET json_output_path == JsonOutputPath(base_name)
          IN  IF io = "ok"
              THEN /\ fs' = (json_output_path :> JsonFile(file_idx, response_dict)) @@ fs
                   /\ written' = written \cup {json_output_path}
                   /\ result' = TRUE
                   /\ pc' = "ret"
                   /\ UNCHANGED error
              ELSE IF io = "write"
              THEN /\ fs' = (json_output_path :> TextFile(file_idx, <<>>)) @@ fs
                   /\ written' = written \cup {json_output_path}
                   /\ Raise(<<"cannot write">>)
              ELSE /\ Raise(<<"cannot open">>)
                   /\ UNCHANGED <<fs, written>>
    /\ UNCHANGED <<mainVars, docVars, pageVars>>

Next ==
    \/ Main
    \/ ProcessFile
    \/ Count
    \/ Summary
    \/ Upload
    \/ GetSignedUrl
    \/ OcrProcess
    \/ NormalizeResponse
    \/ MakeImageDir
    \/ PageStart
    \/ ImageStep
    \/ RewritePage
    \/ AppendPage
    \/ JoinContent
    \/ WriteMarkdown
    \/ WriteJson

Spec == Init /\ [][Next]_vars
SpecCaps == InitCaps /\ [][Next]_vars
SpecPages == InitPages /\ [][Next]_vars

(***************************************************************************)
(* Properties.                                                             *)
(***************************************************************************)
InDocument == pc \notin {"main", "loop", "exit", "done"} /\ func \in {"pdf", "image"}

\* the page the page loop is working on, and its Markdown before rewriting
CurrentPage == Pages(response_dict).pages[page_idx + 1]
OriginalMarkdown == Get(CurrentPage, "markdown", <<>>)

\* the image loop and the rewriting of the current page are over
PageRewritten == pc = "append" /\ Len(page_images) > 0

\* number of places where pat occurs in s
Occurrences(pat, s) ==
    Cardinality({i \in 1..Len(s) : StartsWith(SubSeq(s, i, Len(s)), pat)})

HasId(rec) == "id" \in DOMAIN rec /\ rec["id"] # <<>>
Saved(m) == diag[m][1] = "saved"
RecordPath(m) ==
    ImagePath(base_name, page_idx, m - 1, Get(page_images[m], "format", <<"png">>))
RecordRef(m) ==
    ImageRef(base_name, page_idx, m - 1, Get(page_images[m], "format", <<"png">>))

\* the records of the current page that were materialized, as <<id, path>>
Materialized ==
    {<<page_images[m]["id"], RecordRef(m)>> : m \in {k \in DOMAIN page_images : Saved(k)}}

\* one left-to-right pass that rewrites the placeholders of mat
RECURSIVE Substituted(_, _)
Substituted(s, mat) ==
    IF s = <<>> THEN <<>>
    ELSE LET hit == {e \in mat : StartsWith(s, Placeholder(e[1]))}
         IN  IF hit = {} THEN <<Head(s)>> \o Substituted(Tail(s), mat)
             ELSE LET e == CHOOSE x \in hit : TRUE
                  IN  Rewritten(e[1], e[2])
                        \o Substituted(SubSeq(s, Len(Placeholder(e[1])) + 1, Len(s)), mat)

----
\* C1: in process_pdf_with_ocr and in process_image_with_ocr alike, the
\* mapping is the output of the first strategy, in the order model_dump,
\* dict, to_dict, __dict__, JSON parse, raw_text, whose guard passes; no
\* earlier strategy's guard passes, and the output is taken verbatim.
Strategies == <<"model_dump", "dict", "to_dict", "__dict__", "json", "raw_text">>

Guard(k) ==
    IF k <= 4 THEN Strategies[k] \in ocr_response.caps
    ELSE IF k = 5 THEN JsonLoads(ocr_response.text).ok
    ELSE TRUE

Output(k) ==
    IF k <= 4 THEN ocr_response.out[Strategies[k]]
    ELSE IF k = 5 THEN JsonLoads(ocr_response.text).value
    ELSE [py |-> "dict", d |-> [raw_text |-> ocr_response.text]]

C1_FirstStrategyWins ==
    (InDocument /\ applied # "none") =>
        \E k \in 1..6 :
            /\ applied = Strategies[k]
            /\ Guard(k)
            /\ \A j \in 1..(k - 1) : ~Guard(j)
            /\ response_dict = Output(k)

C1_Witness ==
    /\ func = "image"
    /\ applied = "model_dump"
    /\ ocr_response.caps = Capabilities
    /\ response_dict = ocr_response.out["model_dump"]
    /\ response_dict # ocr_response.out["dict"]

----
\* C2: a call that returned False has written neither {base_name}.md nor
\* {base_name}_full.json.
C2_NoPartialPersist ==
    (pc = "ret" /\ func \in {"pdf", "image"} /\ result = FALSE) =>
        written \cap {OutputPath(base_name), JsonOutputPath(base_name)} = {}

----
\* C3: a record that fails (bad base64, write error, missing id or
\* image_base64) fails neither page nor document: every record is taken,
\* every record that is sound and hits no I/O error is written and its
\* placeholder rewritten, a failed record's placeholder stays in the page,
\* and a document that returns has either not started its pages or
\* finished all of them.
Sound(rec) ==
    /\ HasId(rec)
    /\ "image_base64" \in DOMAIN rec /\ rec["image_base64"] # <<>>
    /\ B64Data(rec["image_base64"]).ok
    /\ B64Decode(B64Data(rec["image_base64"]).data).ok

IoErrors == {<<"error", <<"cannot open">>>>, <<"error", <<"cannot write">>>>}

----
----
\* C5: a record of the inline-data variant (data, no id / image_base64) is
\* written to a file and "\n\n![description](./dir/file)\n\n" is appended
\* to the page's Markdown, in image order.
IsInline(rec) ==
    "data" \in DOMAIN rec /\ "id" \notin DOMAIN rec /\ "image_base64" \notin DOMAIN rec

Description(rec, m) ==
    IF "description" \in DOMAIN rec THEN rec["description"]
    ELSE IF "alt_text" \in DOMAIN rec THEN rec["alt_text"]
    ELSE <<"Image ">> \o Str(m) \o <<" on page ">> \o Str(page_idx + 1)

RECURSIVE InlineRefs(_)
InlineRefs(m) ==
    IF m > Len(page_images) THEN <<>>
    ELSE (IF IsInline(page_images[m])
          THEN <<"\n", "\n", "!", "[">> \o Description(page_images[m], m)
                  \o <<"]", "(">> \o RecordRef(m) \o <<")", "\n", "\n">>
          ELSE <<>>) \o InlineRefs(m + 1)

C5_InlineAppended ==
    PageRewritten =>
        /\ page_markdown = Substituted(OriginalMarkdown, Materialized) \o InlineRefs(1)
        /\ \A m \in DOMAIN page_images :
              IsInline(page_images[m]) => RecordPath(m) \in DOMAIN fs

----
\* C6: the text written to {base_name}.md is the pages' Markdown in page
\* order, one slot per page, two newlines between consecutive pages,
\* without leading or trailing whitespace; a page without `markdown` fills
\* its slot with the empty string.
Offset(parts, k) ==
    LET RECURSIVE Sum(_)
        Sum(j) == IF j = 0 THEN 0 ELSE Len(parts[j]) + 2 + Sum(j - 1)
    IN  Sum(k - 1)

Concatenated(parts) ==
    IF parts = <<>> THEN <<>>
    ELSE LET n == Len(parts)
             total == Offset(parts, n) + Len(parts[n])
         IN  [i \in 1..total |->
                 LET k == CHOOSE j \in 1..n :
                              Offset(parts, j) < i /\ i <= Offset(parts, j) + Len(parts[j]) + 2
                 IN  IF i <= Offset(parts, k) + Len(parts[k])
                     THEN parts[k][i - Offset(parts, k)]
                     ELSE "\n"]

Trimmed(s) ==
    LET solid == {i \in 1..Len(s) : s[i] \notin {" ", "\n"}}
    IN  IF solid = {} THEN <<>>
        ELSE SubSeq(s, CHOOSE i \in solid : \A j \in solid : i <= j,
                       CHOOSE i \in solid : \A j \in solid : i >= j)

C6_PagesJoinedInOrder ==
    /\ (InDocument /\ pc \in {"page", "write_md", "write_json"}) =>
          /\ Len(all_content) = page_idx
          /\ page_idx > 0 => all_content[page_idx] = page_markdown
          /\ \A k \in 1..page_idx :
                LET page == Pages(response_dict).pages[k]
                IN  /\ "markdown" \notin DOMAIN page => all_content[k] = <<>>
                    /\ Get(page, "images", <<>>) = <<>>
                          => all_content[k] = Get(page, "markdown", <<>>)
    /\ (InDocument /\ pc = "write_json") =>
          /\ Len(all_content) = Len(Pages(response_dict).pages)
          /\ fs[OutputPath(base_name)].text = Trimmed(Concatenated(all_content))

C6_Witness ==
    /\ pc = "write_json"
    /\ Len(all_content) = 2
    /\ "markdown" \notin DOMAIN Pages(response_dict).pages[1]
    /\ all_content[2] # <<>>
    /\ fs[OutputPath(base_name)].text # content
    /\ fs[OutputPath(base_name)].text # <<>>

----
\* C7: the loop takes every discovered file once, in order; each file ends
\* as succeeded or failed, a failure does not stop the loop, and at the
\* end successful + failed is the number of discovered files.
C7_BatchNeverAborts ==
    /\ stdout = SubSeq(files, 1, file_idx)
    /\ pc \in {"loop", "done"} => successful + failed = file_idx
    /\ InDocument => successful + failed = file_idx - 1
    /\ pc = "done" => (file_idx = Len(files) /\ successful + failed = Len(files))

C7_Witness ==
    /\ pc = "done"
    /\ Len(files) = 2
    /\ failed = 1
    /\ successful = 1
    /\ result = TRUE

----
\* C8 as stated: every normalized document with zero pages has both files
\* written and counts as a success.
ZeroPages ==
    /\ response_dict.py = "dict"
    /\ ("pages" \in DOMAIN response_dict.d => response_dict.d["pages"] = <<>>)

BothWritten ==
    /\ {OutputPath(base_name), JsonOutputPath(base_name)} \subseteq written
    /\ fs[OutputPath(base_name)] = TextFile(file_idx, <<>>)
    /\ fs[JsonOutputPath(base_name)] = JsonFile(file_idx, response_dict)

WriteErrors == {<<"cannot open">>, <<"cannot write">>}

----
\* C9: while one document is processed, whatever was written for another
\* document of the batch stays as it is.
C9_DocumentsIndependent ==
    [][\A p \in DOMAIN fs :
          fs[p].by # file_idx' => (p \in DOMAIN fs' /\ fs'[p] = fs[p])]_vars

----
\* C10: after the image loop, a file exists at a record's computed path
\* only if the record was materialized and its id entered in the map.
C10_FileOnlyIfMaterialized ==
    pc \in {"rewrite", "append"} /\ Len(page_images) > 0 =>
        \A m \in DOMAIN page_images :
            RecordPath(m) \in DOMAIN fs =>
                (Saved(m) /\ page_images[m]["id"] \in DictKeys(image_data_dict))

====
